---- MODULE Spec2Model ----
(***************************************************************************)
(* State-machine model of src/main.py: the /books handler get_books, the   *)
(* per-subject paginator search_books_by_subject, the subject resolver     *)
(* resolve_subject_id and the 429 retry loop request_with_backoff.         *)
(*                                                                         *)
(* One behaviour of Spec is one /books request.  The upstream API is the    *)
(* environment: every GET is answered with a status and, on success, a     *)
(* body the model picks from bounded sets.  A behaviour of TwoRunSpec is   *)
(* the same request made twice against an upstream whose bodies are fixed  *)
(* beforehand, the statuses staying free.  Text that the handler takes     *)
(* apart (the subjects parameter) is a sequence of one-character strings;  *)
(* opaque text (titles, urls, ids) is a TLA+ string, "" standing for a     *)
(* missing or empty field, which Python treats alike (both are falsy).     *)
(***************************************************************************)
EXTENDS Integers, Sequences, FiniteSets, TLC

(***************************************************************************)
(* Bounds of the model.                                                    *)
(***************************************************************************)
\* longest /works page the upstream serves when its stock is mixed
MaxPageLen == 2
\* longest /works page the upstream serves when its stock is one kind of work
MaxLongPageLen == 5
\* number of /works pages after which the upstream has nothing more to serve
MaxPages == 2
\* jitter resolution: random.random() is one of 0/JitterDen .. (JitterDen-1)/JitterDen
JitterDen == 2

(***************************************************************************)
(* Program constants.                                                      *)
(***************************************************************************)
max_retries_one_more == 5 + 1

max_retries == 5
PerPage == 50
FallbackDivisor == 5
BackoffBase == 2
\* defaults of the start_year and end_year query parameters, lines 149-150
DefaultStartYear == 2021
DefaultEndYear == 2025

\* status codes the upstream answers with: success, rate-limited, and two
\* other error statuses (raise_for_status raises on every 4xx and 5xx)
Statuses == {200, 429, 404, 500}

(***************************************************************************)
(* Sequence helpers.                                                       *)
(***************************************************************************)
Last(s) == s[Len(s)]
Front(s) == SubSeq(s, 1, Len(s) - 1)

RECURSIVE Reverse(_)
Reverse(s) == IF s = <<>> THEN <<>> ELSE Append(Reverse(Tail(s)), Head(s))

RECURSIVE Pow(_, _)
Pow(b, e) == IF e = 0 THEN 1 ELSE b * Pow(b, e - 1)

(***************************************************************************)
(* get_books line 156: subjects.split(","), s.strip(), drop empties.       *)
(***************************************************************************)
RECURSIVE SplitAcc(_, _, _)
SplitAcc(s, cur, acc) ==
    IF s = <<>> THEN Append(acc, cur)
    ELSE IF Head(s) = "," THEN SplitAcc(Tail(s), <<>>, Append(acc, cur))
    ELSE SplitAcc(Tail(s), Append(cur, Head(s)), acc)

SplitComma(s) == SplitAcc(s, <<>>, <<>>)

RECURSIVE LStrip(_)
LStrip(s) == IF s # <<>> /\ Head(s) = " " THEN LStrip(Tail(s)) ELSE s

RECURSIVE RStrip(_)
RStrip(s) == IF s # <<>> /\ Last(s) = " " THEN RStrip(Front(s)) ELSE s

Strip(s) == RStrip(LStrip(s))

RECURSIVE StripAndDrop(_)
StripAndDrop(toks) ==
    IF toks = <<>> THEN <<>>
    ELSE IF Strip(Head(toks)) # <<>>
         THEN <<Strip(Head(toks))>> \o StripAndDrop(Tail(toks))
         ELSE StripAndDrop(Tail(toks))

NormalizeSubjectsReversed(s) == Reverse(StripAndDrop(SplitComma(s)))

NormalizeSubjects(s) == StripAndDrop(SplitComma(s))

(***************************************************************************)
(* Upstream work records.  publication_year is <<"int", y>> for a JSON     *)
(* integer and <<"other", 0>> for null or any other JSON value.  The       *)
(* upstream applies the publication_year:a-b filter of the query: the      *)
(* integer years it serves lie in a..b (the model serves both ends), and   *)
(* a record may still come without an integer year.                        *)
(***************************************************************************)
Work(lang, pdf, landing, doi, id, name, year, authors) ==
    [language |-> lang, pdf_url |-> pdf, landing_page_url |-> landing,
     doi |-> doi, id |-> id, display_name |-> name,
     publication_year |-> year, authorships |-> authors]

WPdf(a, b) == Work("en", "pdf1", "land1", "", "W1", "T1", <<"int", a>>, <<"Ann", "", "Bob">>)
WLand(a, b) == Work("en", "", "land2", "doi2", "W2", "T2", <<"int", b>>, <<"Cy">>)
WDoi(a, b) == Work("en", "", "", "doi3", "W3", "", <<"other", 0>>, <<"">>)
WFr(a, b) == Work("fr", "pdf5", "", "", "W5", "T5", <<"int", b>>, <<"Di">>)
WNoUrl(a, b) == Work("en", "", "", "", "", "T6", <<"int", a>>, <<"Ed">>)

\* the kinds of work the upstream serves for the year range a-b
Works(a, b) == {WPdf(a, b), WLand(a, b), WDoi(a, b), WFr(a, b), WNoUrl(a, b)}

(***************************************************************************)
(* pick_best_url, lines 35-44.                                             *)
(***************************************************************************)
pick_best_url(work) ==
    IF work.pdf_url # "" THEN work.pdf_url
    ELSE IF work.landing_page_url # "" THEN work.landing_page_url
    ELSE IF work.doi # "" THEN work.doi
    ELSE work.id

(***************************************************************************)
(* Row mapping, lines 122-137.  Authors is the list of non-empty display   *)
(* names in upstream order (the text joined with ", " is not taken apart   *)
(* anywhere, so the list stands for it).                                   *)
(***************************************************************************)
IsNonEmptyName(n) == n # ""

RowYearNextYear(work) ==
    IF work.publication_year[1] = "int" THEN work.publication_year[2] + 1 ELSE 0

RowYear(work) ==
    IF work.publication_year[1] = "int" THEN work.publication_year[2] ELSE 0

MakeRow(work, subj) ==
    [Title |-> IF work.display_name # "" THEN work.display_name ELSE "N/A",
     Authors |-> SelectSeq(work.authorships, IsNonEmptyName),
     Year |-> RowYear(work),
     URL |-> pick_best_url(work),
     Subject |-> subj]

\* lines 113-120: the two skip tests of the record loop
IsEnglish(work) == work.language = "en"
HasUrl(work) == pick_best_url(work) # ""
IsIncludedAnyLanguage(work) == HasUrl(work)

IsIncluded(work) == IsEnglish(work) /\ HasUrl(work)

(***************************************************************************)
(* results.sort(key=lambda x: x["Year"], reverse=True), line 176.          *)
(* list.sort is stable; with reverse=True CPython reverses the list,       *)
(* sorts it stably in ascending key order and reverses it again, which     *)
(* keeps equal keys in their original order.                               *)
(***************************************************************************)
RECURSIVE InsertAsc(_, _)
\* insert r behind every element whose Year is <= r.Year (stable)
InsertAsc(sorted, r) ==
    IF sorted = <<>> THEN <<r>>
    ELSE IF Head(sorted).Year <= r.Year
         THEN <<Head(sorted)>> \o InsertAsc(Tail(sorted), r)
         ELSE <<r>> \o sorted

RECURSIVE StableSortAsc(_)
StableSortAsc(s) ==
    IF s = <<>> THEN <<>> ELSE InsertAsc(StableSortAsc(Front(s)), Last(s))

SortAscThenReverse(s) == Reverse(StableSortAsc(s))

SortByYearDesc(s) == Reverse(StableSortAsc(Reverse(s)))

(***************************************************************************)
(* Inputs of one /books request and the upstream's stock.                  *)
(***************************************************************************)
\* values of the subjects query parameter
SubjectInputs ==
    { <<>>,
      <<" ", ",", " ">>,
      <<"a">>,
      <<" ", "a", ",", "b">>,
      <<"a", ",", ",", "a">> }

SmallCaps == {-1, 0, 1, 2}
LargeCaps == {5, 10}

\* what the upstream can serve during one request: the kinds of work its
\* /works pages are made of and the longest page it serves
MixedStock(a, b) == [kinds |-> Works(a, b), page_len |-> MaxPageLen]
UniformStocks(a, b) == {[kinds |-> {w}, page_len |-> MaxLongPageLen] : w \in Works(a, b)}

\* year ranges a-b, a <= b, other than the default: one year, and a range
\* that ends before the default one starts
OtherYearRanges == {<<DefaultEndYear, DefaultEndYear>>, <<1999, 2000>>}

\* the requests explored: with the default year range, any subjects value
\* with a small cap against a mixed stock, and one subject with a large cap
\* against a uniform stock; with another year range, one subject with the
\* smallest cap that lets the fallback pass run, against a uniform stock
Requests ==
    {[subjects |-> s, start_year |-> DefaultStartYear, end_year |-> DefaultEndYear,
      max_results |-> m, oa_only |-> o,
      stock |-> MixedStock(DefaultStartYear, DefaultEndYear)] :
        s \in SubjectInputs, m \in SmallCaps, o \in BOOLEAN}
    \cup
    {[subjects |-> <<"a">>, start_year |-> DefaultStartYear, end_year |-> DefaultEndYear,
      max_results |-> m, oa_only |-> o, stock |-> st] :
        m \in LargeCaps, o \in BOOLEAN,
        st \in UniformStocks(DefaultStartYear, DefaultEndYear)}
    \cup
    UNION {{[subjects |-> <<"a">>, start_year |-> yr[1], end_year |-> yr[2],
             max_results |-> FallbackDivisor, oa_only |-> o, stock |-> st] :
               o \in BOOLEAN, st \in UniformStocks(yr[1], yr[2])} :
           yr \in OtherYearRanges}

ConceptId == "https://openalex.org/C1"
TopicId == "https://openalex.org/T1"

\* body of a /concepts or /topics answer to per-page=1: no result or one
ResolveBodies(id) == {<<>>, <<[id |-> id]>>}

\* number of records on the /works page p
PageLengthsEndless(st, p) == 1..st.page_len

PageLengths(st, p) == IF p <= MaxPages THEN 0..st.page_len ELSE {0}

NoResponse == [status |-> 0, media |-> "", body |-> <<>>]
NoParams == [filter |-> <<>>, per_page |-> 0, page |-> 0]

(***************************************************************************)
(* A fixed upstream dataset: what /concepts and /topics answer, and the    *)
(* /works pages with and without the open-access filter.  A run is made    *)
(* either against a free upstream (fixed is FALSE: every answer is picked  *)
(* when the GET is made) or against a dataset fixed before the run.        *)
(***************************************************************************)
FreeUpstream ==
    [fixed |-> FALSE, concepts |-> <<>>, topics |-> <<>>,
     oa_pages |-> <<>>, all_pages |-> <<>>]

\* the records of the fixed datasets: an English work with a year, one
\* without a year, and one that is not English
DatasetWorks ==
    {WLand(DefaultStartYear, DefaultEndYear), WDoi(DefaultStartYear, DefaultEndYear),
     WFr(DefaultStartYear, DefaultEndYear)}

\* non-empty pages of one or two records
DatasetPage == {<<w>> : w \in DatasetWorks} \cup {<<v, w>> : v, w \in DatasetWorks}

\* the non-empty pages of a query, in page order: none, one, or two of which
\* the last holds one record
PageLists ==
    {<<>>} \cup {<<p>> : p \in DatasetPage}
        \cup {<<p, <<w>> >> : p \in DatasetPage, w \in DatasetWorks}

Datasets ==
    {[fixed |-> TRUE, concepts |-> c, topics |-> t, oa_pages |-> o, all_pages |-> a] :
        c \in ResolveBodies(ConceptId), t \in ResolveBodies(TopicId),
        o \in {<<>>, << <<WLand(DefaultStartYear, DefaultEndYear)>> >>},
        a \in PageLists}

\* the requests made against a fixed dataset: one subject with the smallest
\* cap that lets the fallback pass run, and a subject named twice with cap 1
DatasetRequests ==
    {[subjects |-> rq[1], start_year |-> DefaultStartYear, end_year |-> DefaultEndYear,
      max_results |-> rq[2], oa_only |-> o,
      stock |-> [kinds |-> DatasetWorks, page_len |-> MaxPageLen]] :
        rq \in {<< <<"a">>, FallbackDivisor >>, << <<"a", ",", ",", "a">>, 1 >>},
        o \in BOOLEAN}

VARIABLES
    \* the request and the upstream
    subjects, start_year, end_year, max_results, oa_only, stock,
    \* the dataset of the upstream, the number of the run made against it
    \* (0 when the upstream is free), the answer of the first run, and the
    \* runs in which a /works GET was answered 429
    dataset, run, first_response, throttled_runs,
    \* get_books
    pc, subject_list, results, idx, pass, rows, response,
    \* search_books_by_subject; work_results is the number of records of the
    \* page in hand and cursor the position of the record loop in it, each
    \* record being drawn when the loop reaches it
    subject, oa, key, id_url, params, all_rows, page, work_results, cursor,
    \* request_with_backoff
    attempt, sleep_time, resp_status,
    \* history of the run, read by the properties only
    resolve_calls, works_calls, bo_gets, bo_sleeps, bo_429s, fetches

reqVars == <<subjects, start_year, end_year, max_results, oa_only, stock>>
envVars == <<dataset, run, first_response, throttled_runs>>
gbVars == <<subject_list, results, idx, pass, rows, response>>
searchVars == <<subject, oa, key, id_url, params, all_rows, page, work_results, cursor>>
boVars == <<attempt, sleep_time, resp_status>>
histVars == <<resolve_calls, works_calls, bo_gets, bo_sleeps, bo_429s, fetches>>
vars == <<reqVars, envVars, pc, gbVars, searchVars, boVars, histVars>>

\* the request rq arrives
Arrives(rq) ==
    /\ subjects = rq.subjects
    /\ start_year = rq.start_year
    /\ end_year = rq.end_year
    /\ max_results = rq.max_results
    /\ oa_only = rq.oa_only
    /\ stock = rq.stock

\* the handler is about to run
Fresh ==
    /\ pc = "get_books"
    /\ subject_list = <<>> /\ results = <<>> /\ idx = 0 /\ pass = 0
    /\ rows = <<>> /\ response = NoResponse
    /\ subject = <<>> /\ oa = FALSE /\ key = "" /\ id_url = ""
    /\ params = NoParams /\ all_rows = <<>> /\ page = 0
    /\ work_results = 0 /\ cursor = 0
    /\ attempt = 0 /\ sleep_time = 0 /\ resp_status = 0
    /\ resolve_calls = <<>> /\ works_calls = 0
    /\ bo_gets = 0 /\ bo_sleeps = 0 /\ bo_429s = 0 /\ fetches = <<>>

Init ==
    /\ \E rq \in Requests : Arrives(rq)
    /\ dataset = FreeUpstream /\ run = 0 /\ first_response = NoResponse
    /\ throttled_runs = {}
    /\ Fresh

(***************************************************************************)
(* Answers of the upstream.                                                *)
(***************************************************************************)
\* the /works pages of the query in hand
PagesOf(open_access) == IF open_access THEN dataset.oa_pages ELSE dataset.all_pages

PageOf(open_access, p) ==
    IF p \in DOMAIN PagesOf(open_access) THEN PagesOf(open_access)[p] ELSE <<>>

\* body of the /concepts or /topics answer
ServedResolveBodies(ns, id) ==
    IF dataset.fixed THEN {dataset[ns]} ELSE ResolveBodies(id)

\* number of records of the /works page p
ServedPageLengths(open_access, p) ==
    IF dataset.fixed THEN {Len(PageOf(open_access, p))} ELSE PageLengths(stock, p)

\* the c-th record of the /works page p
ServedWorks(open_access, p, c) ==
    IF dataset.fixed THEN {PageOf(open_access, p)[c]} ELSE stock.kinds

(***************************************************************************)
(* Shared steps.                                                           *)
(***************************************************************************)
\* the frame of a finished search_books_by_subject call is dropped
ClearLocals ==
    /\ subject' = <<>> /\ oa' = FALSE /\ key' = "" /\ id_url' = ""
    /\ params' = NoParams /\ all_rows' = <<>> /\ page' = 0
    /\ work_results' = 0 /\ cursor' = 0
    /\ attempt' = 0 /\ sleep_time' = 0 /\ resp_status' = 0
    /\ resolve_calls' = <<>> /\ works_calls' = 0
    /\ bo_gets' = 0 /\ bo_sleeps' = 0 /\ bo_429s' = 0

\* raise_for_status() raised on status st: nothing catches the exception, it
\* unwinds search_books_by_subject and get_books (their locals are gone) and
\* the request ends in a server error
Raise(st) ==
    /\ pc' = "error"
    /\ response' = [status |-> 500, media |-> "", body |-> <<>>]
    /\ resp_status' = st
    /\ subject_list' = <<>> /\ results' = <<>> /\ idx' = 0 /\ pass' = 0 /\ rows' = <<>>
    /\ subject' = <<>> /\ oa' = FALSE /\ key' = "" /\ id_url' = ""
    /\ params' = NoParams /\ all_rows' = <<>> /\ page' = 0
    /\ work_results' = 0 /\ cursor' = 0

\* search_books_by_subject(subj, ..., open_access) is entered, lines 83-85
CallSearch(subj, open_access) ==
    /\ subject' = subj /\ oa' = open_access
    /\ key' = "" /\ id_url' = "" /\ params' = NoParams
    /\ all_rows' = <<>> /\ page' = 0 /\ work_results' = 0 /\ cursor' = 0
    /\ attempt' = 0 /\ sleep_time' = 0 /\ resp_status' = 0
    /\ resolve_calls' = <<>> /\ works_calls' = 0
    /\ bo_gets' = 0 /\ bo_sleeps' = 0 /\ bo_429s' = 0
    /\ pc' = "resolve_concepts"

\* search_books_by_subject returns r to get_books (lines 89, 143)
ReturnRows(r) ==
    /\ rows' = r
    /\ fetches' = Append(fetches, [idx |-> idx, oa |-> oa, rows |-> r])
    /\ pc' = IF pass = 1 THEN "extend_first" ELSE "extend_fallback"

\* lines 92-103: the filter, the parameters, all_rows, page = [], 1
FilterParts(k, id, open_access) ==
    << <<"type", "book">>, <<k, id>>,
       <<"publication_year", start_year, end_year>> >>
    \o (IF open_access THEN << <<"is_oa", "true">> >> ELSE <<>>)

BuildQuery(k, id) ==
    /\ key' = k /\ id_url' = id
    /\ params' = [filter |-> FilterParts(k, id, oa), per_page |-> PerPage, page |-> 0]
    /\ all_rows' = <<>> /\ page' = 1
    /\ pc' = "while"

(***************************************************************************)
(* get_books, lines 156-157.                                               *)
(***************************************************************************)
ParseSubjects ==
    /\ pc = "get_books"
    /\ subject_list' = NormalizeSubjects(subjects)
    /\ results' = <<>>
    /\ idx' = 1
    /\ pc' = "for_subject"
    /\ UNCHANGED <<reqVars, envVars, pass, rows, response, searchVars, boVars, histVars>>

(***************************************************************************)
(* get_books, lines 159-160: next subject, first fetch.                    *)
(***************************************************************************)
ForSubject ==
    /\ pc = "for_subject"
    /\ IF idx <= Len(subject_list)
       THEN /\ pass' = 1
            /\ CallSearch(subject_list[idx], oa_only)
       ELSE /\ pc' = "respond"
            /\ UNCHANGED <<pass, searchVars, boVars,
                           resolve_calls, works_calls, bo_gets, bo_sleeps, bo_429s>>
    /\ UNCHANGED <<reqVars, envVars, subject_list, results, idx, rows, response, fetches>>

(***************************************************************************)
(* resolve_subject_id, lines 47-67.                                        *)
(***************************************************************************)
\* the filter key that goes with a namespace (lines 58 and 65)
NamespaceKeyAlwaysConcepts(ns) == "concepts.id"

NamespaceKey(ns) == IF ns = "concepts" THEN "concepts.id" ELSE "topics.id"

\* raise_for_status(), lines 55, 62, 78 and 80: every 4xx and 5xx raises
IsErrorStatusExcept429(st) == st >= 400 /\ st < 600 /\ st # 429

IsErrorStatusServerOnly(st) == st >= 500 /\ st < 600

IsErrorStatus(st) == st >= 400 /\ st < 600

\* `if not key`, line 88
UnresolvedNever(k) == FALSE

Unresolved(k) == k = ""

\* one resolver GET, as the history keeps it
ResolveCall(ns, st, body) ==
    [ns |-> ns, status |-> st, results |-> IF IsErrorStatus(st) THEN <<>> ELSE body]

(***************************************************************************)
(* resolve_subject_id, lines 49-58, and lines 88-103 of the caller:        *)
(* GET /concepts, no retry; a result is returned at once with its key.     *)
(***************************************************************************)
ResolveConcepts ==
    /\ pc = "resolve_concepts"
    /\ \E st \in Statuses, body \in ServedResolveBodies("concepts", ConceptId) :
         /\ resolve_calls' = Append(resolve_calls, ResolveCall("concepts", st, body))
         /\ IF IsErrorStatus(st)
            THEN /\ Raise(st)
                 /\ UNCHANGED fetches
            ELSE IF body # <<>>
            THEN /\ BuildQuery(NamespaceKey("concepts"), body[1].id)
                 /\ resp_status' = st
                 /\ UNCHANGED <<gbVars, subject, oa, work_results, cursor, fetches>>
            ELSE /\ pc' = "resolve_topics"
                 /\ resp_status' = st
                 /\ UNCHANGED <<gbVars, searchVars, fetches>>
    /\ UNCHANGED <<reqVars, envVars, attempt, sleep_time,
                   works_calls, bo_gets, bo_sleeps, bo_429s>>

(***************************************************************************)
(* resolve_subject_id, lines 61-67, and lines 88-103 of the caller:        *)
(* GET /topics, no retry; (None, None) when it has no result either, and   *)
(* the caller then returns [].                                             *)
(***************************************************************************)
ResolveTopics ==
    /\ pc = "resolve_topics"
    /\ \E st \in Statuses, body \in ServedResolveBodies("topics", TopicId) :
         /\ resolve_calls' = Append(resolve_calls, ResolveCall("topics", st, body))
         /\ IF IsErrorStatus(st)
            THEN /\ Raise(st)
                 /\ UNCHANGED fetches
            ELSE LET k == IF body # <<>> THEN NamespaceKey("topics") ELSE ""
                     id == IF body # <<>> THEN body[1].id ELSE ""
                 IN  IF Unresolved(k)
                     THEN /\ ReturnRows(<<>>)
                          /\ resp_status' = st
                          /\ UNCHANGED <<subject_list, results, idx, pass, response,
                                         searchVars>>
                     ELSE /\ BuildQuery(k, id)
                          /\ resp_status' = st
                          /\ UNCHANGED <<gbVars, subject, oa, work_results, cursor,
                                         fetches>>
    /\ UNCHANGED <<reqVars, envVars, attempt, sleep_time,
                   works_calls, bo_gets, bo_sleeps, bo_429s>>

(***************************************************************************)
(* search_books_by_subject, lines 104-107 and 143: the loop test; a true   *)
(* test sets the page parameter and enters request_with_backoff.           *)
(***************************************************************************)
\* a loop test that hands every later page the attempts already spent, one
\* per page requested so far
WhileTestSharedAttempts ==
    /\ pc = "while"
    /\ IF Len(all_rows) < max_results
       THEN /\ params' = [params EXCEPT !.page = page]
            /\ attempt' = works_calls /\ sleep_time' = 0 /\ resp_status' = 0
            /\ bo_gets' = 0 /\ bo_sleeps' = 0 /\ bo_429s' = 0
            /\ works_calls' = works_calls + 1
            /\ pc' = "backoff_get"
            /\ UNCHANGED <<rows, fetches>>
       ELSE /\ ReturnRows(all_rows)
            /\ UNCHANGED <<params, boVars, bo_gets, bo_sleeps, bo_429s, works_calls>>
    /\ UNCHANGED <<reqVars, envVars, subject_list, results, idx, pass, response,
                   subject, oa, key, id_url, all_rows, page, work_results, cursor,
                   resolve_calls>>

WhileTest ==
    /\ pc = "while"
    /\ IF Len(all_rows) < max_results
       THEN /\ params' = [params EXCEPT !.page = page]
            /\ attempt' = 0 /\ sleep_time' = 0 /\ resp_status' = 0
            /\ bo_gets' = 0 /\ bo_sleeps' = 0 /\ bo_429s' = 0
            /\ works_calls' = works_calls + 1
            /\ pc' = "backoff_get"
            /\ UNCHANGED <<rows, fetches>>
       ELSE /\ ReturnRows(all_rows)
            /\ UNCHANGED <<params, boVars, bo_gets, bo_sleeps, bo_429s, works_calls>>
    /\ UNCHANGED <<reqVars, envVars, subject_list, results, idx, pass, response,
                   subject, oa, key, id_url, all_rows, page, work_results, cursor,
                   resolve_calls>>

(***************************************************************************)
(* request_with_backoff, lines 73-74 and 78-79: one GET of the attempt     *)
(* loop.  429 goes on to the sleep, another error status raises, success   *)
(* returns the response.                                                   *)
(***************************************************************************)
\* `resp.status_code == 429`, line 74
IsRateLimitedOrServerError(st) == st = 429 \/ st >= 500

IsRateLimited(st) == st = 429

BackoffGet ==
    /\ pc = "backoff_get"
    /\ bo_gets' = bo_gets + 1
    /\ \E st \in Statuses :
         /\ bo_429s' = IF st = 429 THEN bo_429s + 1 ELSE bo_429s
         /\ throttled_runs' = IF st = 429 /\ run > 0
                               THEN throttled_runs \cup {run} ELSE throttled_runs
         /\ IF IsRateLimited(st)
            THEN /\ resp_status' = st
                 /\ pc' = "backoff_sleep"
                 /\ UNCHANGED <<gbVars, searchVars>>
            ELSE IF IsErrorStatus(st)
            THEN Raise(st)
            ELSE /\ resp_status' = st
                 /\ pc' = "page"
                 /\ UNCHANGED <<gbVars, searchVars>>
    /\ UNCHANGED <<reqVars, dataset, run, first_response,
                   attempt, sleep_time, resolve_calls, works_calls, bo_sleeps, fetches>>

(***************************************************************************)
(* request_with_backoff, lines 75-77, 72 and 80: the sleep after a 429,    *)
(* then the next attempt, or the final raise_for_status() once the         *)
(* attempts are used up.  Time is counted in 1/JitterDen units.            *)
(***************************************************************************)
SleepTimeLinear(att, jitter) == (BackoffBase * att) * JitterDen + jitter

SleepTime(att, jitter) == Pow(BackoffBase, att) * JitterDen + jitter

\* a retry that asks for the page after the one that was answered 429
BackoffSleepNextPage ==
    /\ pc = "backoff_sleep"
    /\ \E jitter \in 0..(JitterDen - 1) : sleep_time' = SleepTime(attempt, jitter)
    /\ bo_sleeps' = bo_sleeps + 1
    /\ attempt' = attempt + 1
    /\ IF attempt + 1 < max_retries
       THEN /\ pc' = "backoff_get"
            /\ params' = [params EXCEPT !.page = @ + 1]
            /\ UNCHANGED <<gbVars, subject, oa, key, id_url, all_rows, page,
                           work_results, cursor, resp_status>>
       ELSE Raise(resp_status)
    /\ UNCHANGED <<reqVars, envVars, resolve_calls, works_calls, bo_gets, bo_429s, fetches>>

BackoffSleep ==
    /\ pc = "backoff_sleep"
    /\ \E jitter \in 0..(JitterDen - 1) : sleep_time' = SleepTime(attempt, jitter)
    /\ bo_sleeps' = bo_sleeps + 1
    /\ attempt' = attempt + 1
    /\ IF attempt + 1 < max_retries
       THEN /\ pc' = "backoff_get"
            /\ UNCHANGED <<gbVars, searchVars, resp_status>>
       ELSE Raise(resp_status)
    /\ UNCHANGED <<reqVars, envVars, resolve_calls, works_calls, bo_gets, bo_429s, fetches>>

(***************************************************************************)
(* search_books_by_subject, lines 107-110: request_with_backoff has        *)
(* returned (its frame is dropped) and the body is read; an empty page     *)
(* breaks out of the loop and returns all_rows, any other page starts the  *)
(* record loop.                                                            *)
(***************************************************************************)
PageResults ==
    /\ pc = "page"
    /\ attempt' = 0 /\ sleep_time' = 0 /\ resp_status' = 0
    /\ bo_gets' = 0 /\ bo_sleeps' = 0 /\ bo_429s' = 0
    /\ \E n \in ServedPageLengths(oa, params.page) :
         /\ work_results' = n
         /\ IF n = 0
            THEN /\ ReturnRows(all_rows)
                 /\ UNCHANGED cursor
            ELSE /\ cursor' = 1
                 /\ pc' = "for_work"
                 /\ UNCHANGED <<rows, fetches>>
    /\ UNCHANGED <<reqVars, envVars, subject_list, results, idx, pass, response,
                   subject, oa, key, id_url, params, all_rows, page,
                   resolve_calls, works_calls>>

(***************************************************************************)
(* search_books_by_subject, lines 112-141: one pass of the record loop.    *)
(* A record that is not English or has no URL is skipped; any other is     *)
(* appended, and the loop breaks once the cap is reached.  After the last  *)
(* record or the break, page += 1 and control is back at the loop test.    *)
(***************************************************************************)
Accumulate(acc, work, subj) ==
    IF IsIncluded(work) THEN Append(acc, MakeRow(work, subj)) ELSE acc

\* `if len(all_rows) >= max_results: break`, lines 139-140
CapReachedNoBreak(acc, work, cap) == FALSE

CapReached(acc, work, cap) == IsIncluded(work) /\ Len(acc) >= cap

ForWork ==
    /\ pc = "for_work"
    /\ \E work \in ServedWorks(oa, params.page, cursor) :
         /\ all_rows' = Accumulate(all_rows, work, subject)
         /\ IF CapReached(all_rows', work, max_results) \/ cursor = work_results
            THEN /\ page' = page + 1
                 /\ pc' = "while"
                 /\ UNCHANGED <<cursor, work_results>>
            ELSE /\ cursor' = cursor + 1
                 /\ UNCHANGED <<page, work_results, pc>>
    /\ UNCHANGED <<reqVars, envVars, gbVars, subject, oa, key, id_url, params,
                   boVars, histVars>>

(***************************************************************************)
(* get_books, lines 160-166: the first fetch has returned.  Its rows are   *)
(* appended; with oa_only and fewer than max_results // 5 rows the         *)
(* subject is fetched again without the open-access filter, otherwise the  *)
(* loop moves to the next subject.                                         *)
(***************************************************************************)
\* `len(rows) < max_results // 5`, line 164
FewResultsInclusive(n, cap) == n <= cap \div FallbackDivisor

FewResults(n, cap) == n < cap \div FallbackDivisor

ExtendFirst ==
    /\ pc = "extend_first"
    /\ results' = results \o rows
    /\ IF oa_only /\ FewResults(Len(rows), max_results)
       THEN /\ pass' = 2
            /\ CallSearch(subject_list[idx], FALSE)
            /\ UNCHANGED <<idx, rows>>
       ELSE /\ idx' = idx + 1
            /\ pass' = 0
            /\ rows' = <<>>
            /\ ClearLocals
            /\ pc' = "for_subject"
    /\ UNCHANGED <<reqVars, envVars, subject_list, response, fetches>>

(***************************************************************************)
(* get_books, lines 166-167 and 159: the fallback fetch has returned; its  *)
(* rows are appended and the loop moves to the next subject.               *)
(***************************************************************************)
ExtendFallback ==
    /\ pc = "extend_fallback"
    /\ results' = results \o rows
    /\ idx' = idx + 1
    /\ pass' = 0
    /\ rows' = <<>>
    /\ ClearLocals
    /\ pc' = "for_subject"
    /\ UNCHANGED <<reqVars, envVars, subject_list, response, fetches>>

(***************************************************************************)
(* get_books, lines 169-190: 404 for an empty result list, otherwise the   *)
(* list is sorted in place and sent as JSON or CSV.                        *)
(***************************************************************************)
Formats == {"json", "csv"}
NotFoundMessage == "No results found for given subjects."

MediaType(format) == IF format = "csv" THEN "text/csv" ELSE "application/json"

\* `if not results`, line 169
IsEmptyResultNever(res) == FALSE

IsEmptyResult(res) == res = <<>>

Respond ==
    /\ pc = "respond"
    /\ pc' = "done"
    /\ IF IsEmptyResult(results)
       THEN /\ response' = [status |-> 404, media |-> "application/json",
                            body |-> NotFoundMessage]
            /\ UNCHANGED results
       ELSE /\ results' = SortByYearDesc(results)
            /\ \E format \in Formats :
                 response' = [status |-> 200, media |-> MediaType(format),
                              body |-> results']
    /\ UNCHANGED <<reqVars, envVars, subject_list, idx, pass, rows, searchVars, boVars, histVars>>

Next ==
    \/ ParseSubjects
    \/ ForSubject
    \/ ResolveConcepts
    \/ ResolveTopics
    \/ WhileTest
    \/ BackoffGet
    \/ BackoffSleep
    \/ PageResults
    \/ ForWork
    \/ ExtendFirst
    \/ ExtendFallback
    \/ Respond

Spec == Init /\ [][Next]_vars

(***************************************************************************)
(* Two runs of get_books for one request against one fixed dataset: when   *)
(* the first run has answered, its answer is kept and the request is made  *)
(* again.                                                                  *)
(***************************************************************************)
InitFixed ==
    /\ \E rq \in DatasetRequests : Arrives(rq)
    /\ dataset \in Datasets /\ run = 1 /\ first_response = NoResponse
    /\ throttled_runs = {}
    /\ Fresh

Rerun ==
    /\ pc = "done"
    /\ run = 1
    /\ run' = 2
    /\ first_response' = response
    /\ pc' = "get_books"
    /\ subject_list' = <<>> /\ results' = <<>> /\ idx' = 0 /\ pass' = 0
    /\ rows' = <<>> /\ response' = NoResponse
    /\ ClearLocals
    /\ fetches' = <<>>
    /\ UNCHANGED <<reqVars, dataset, throttled_runs>>

NextFixed == Next \/ Rerun

TwoRunSpec == InitFixed /\ [][NextFixed]_vars

(***************************************************************************)
(* Vocabulary of the properties.                                           *)
(***************************************************************************)
\* search_books_by_subject is inside its pagination loop (lines 103-141)
InPagination == pc \in {"while", "backoff_get", "backoff_sleep", "page", "for_work"}

\* search_books_by_subject has just returned `rows` to get_books
Returned == pc \in {"extend_first", "extend_fallback"}

RECURSIVE ConcatRows(_)
\* the rows of the finished fetches, in the order the fetches were made
ConcatRows(fs) == IF fs = <<>> THEN <<>> ELSE Head(fs).rows \o ConcatRows(Tail(fs))

\* the finished fetches of the idx-th subject, in order
FetchesOf(i) == LET OfSubject(f) == f.idx = i IN SelectSeq(fetches, OfSubject)

RowsFetchedFor(i) == Len(ConcatRows(FetchesOf(i)))

RowsOfYear(s, y) == LET HasYear(r) == r.Year = y IN SelectSeq(s, HasYear)

Years(s) == {s[i].Year : i \in DOMAIN s}

(***************************************************************************)
(* C1.  As claimed: for every max_results value the row list of a          *)
(* search_books_by_subject call holds at most max_results rows at every    *)
(* point of the pagination loop, and so does the list it returns.          *)
(* This fails for a negative max_results, where the list is empty and so   *)
(* longer than the cap.                                                    *)
(***************************************************************************)
C1_NeverAboveMaxResults ==
    /\ InPagination => Len(all_rows) <= max_results
    /\ Returned => Len(rows) <= max_results

\* the most rows a cap allows: a list cannot hold fewer than no rows
RowCap == IF max_results >= 0 THEN max_results ELSE 0

(***************************************************************************)
(* C1, amended.  At every point of the pagination loop, and on return,     *)
(* the row list holds at most max_results rows when max_results >= 0 and   *)
(* no row when max_results is negative; this includes a page that holds    *)
(* more matching records than there is room left.                          *)
(***************************************************************************)
C1_NeverAboveCap ==
    /\ InPagination => Len(all_rows) <= RowCap
    /\ Returned => Len(rows) <= RowCap

\* the record loop has broken off at the cap with records of the page unread
C1_Witness ==
    /\ pc = "while"
    /\ max_results > 0
    /\ Len(all_rows) = max_results
    /\ cursor < work_results

(***************************************************************************)
(* C2.  For a request with n normalized subjects and a cap max_results     *)
(* >= 0, the fetches of each subject bring at most max_results rows and    *)
(* the rows gathered number at most n * max_results, also when the         *)
(* open-access fallback pass runs.                                         *)
(***************************************************************************)
C2_AtMostCapPerSubject ==
    max_results >= 0 =>
        /\ \A i \in 1..Len(subject_list) : RowsFetchedFor(i) <= max_results
        /\ Len(results) <= Len(subject_list) * max_results

(***************************************************************************)
(* C3.  Whenever a GET of a request_with_backoff call is answered 200      *)
(* after k answers of 429, then k < 5 and the call returns at that GET,    *)
(* having slept exactly k times and issued exactly k + 1 GETs.             *)
(***************************************************************************)
C3_ReturnsAfterKSleeps ==
    [][(pc = "backoff_get" /\ resp_status' = 200) =>
          /\ pc' = "page"
          /\ bo_429s' = bo_429s
          /\ bo_429s' < 5
          /\ bo_sleeps' = bo_429s'
          /\ bo_gets' = bo_429s' + 1]_vars

\* a call has returned its 200 response after four answers of 429
C3_Witness ==
    /\ pc = "page"
    /\ resp_status = 200
    /\ bo_429s = 4
    /\ bo_sleeps = 4
    /\ bo_gets = 5

(***************************************************************************)
(* C4.  A request_with_backoff call never issues a sixth GET; once it has  *)
(* been answered 429 five times it has issued exactly 5 GETs, it has not   *)
(* returned a response, and the one step it can still take is the last     *)
(* sleep that ends by raising the error of the last 429; nothing follows   *)
(* the raise, so the call cannot go round again.                           *)
(***************************************************************************)
FiveTimes429 == bo_429s >= 5

C4_RaisesAfterFiveGets ==
    [][/\ bo_gets' <= 5
       /\ FiveTimes429' => /\ bo_gets' = 5
                           /\ pc' \in {"backoff_sleep", "error"}
                           /\ resp_status' = 429
       /\ FiveTimes429 => /\ pc = "backoff_sleep"
                          /\ pc' = "error"
                          /\ response'.status = 500
                          /\ bo_gets' = 5]_vars

\* the call has raised after five answers of 429
C4_Witness ==
    /\ pc = "error"
    /\ bo_429s = 5
    /\ bo_gets = 5
    /\ resp_status = 429

(***************************************************************************)
(* C5.  When a GET of request_with_backoff is answered with an error       *)
(* status other than 429, at any attempt, the call raises at that step:    *)
(* no sleep follows, and no step (so no further GET) is ever taken after   *)
(* the error.                                                              *)
(***************************************************************************)
C5_OtherErrorFailsAtOnce ==
    [][/\ pc # "error"
       /\ (pc = "backoff_get" /\ resp_status' \notin {200, 429}) =>
             /\ pc' = "error"
             /\ bo_sleeps' = bo_sleeps
             /\ bo_gets' = bo_429s' + 1]_vars

\* a call has raised on a 500 that came after two answers of 429
C5_Witness ==
    /\ pc = "error"
    /\ resp_status = 500
    /\ bo_429s = 2
    /\ bo_sleeps = 2
    /\ bo_gets = 3

(***************************************************************************)
(* C6.  resolve_subject_id queries concepts first and topics second, at    *)
(* most 2 GETs in all; it queries topics only after an empty concepts      *)
(* answer; the key and id it returns are the namespace and first result    *)
(* of the last answer, which is the concepts answer whenever that one has  *)
(* a result; and it returns nothing exactly when both answers are empty.   *)
(***************************************************************************)
BothEmpty ==
    /\ Len(resolve_calls) = 2
    /\ \A i \in 1..2 : resolve_calls[i].status = 200 /\ resolve_calls[i].results = <<>>

\* resolve_subject_id has returned to search_books_by_subject
ResolveDone == InPagination \/ Returned

C6_ConceptsThenTopics ==
    /\ Len(resolve_calls) <= 2
    /\ Len(resolve_calls) >= 1 => resolve_calls[1].ns = "concepts"
    /\ Len(resolve_calls) = 2 =>
          /\ resolve_calls[2].ns = "topics"
          /\ resolve_calls[1].status = 200
          /\ resolve_calls[1].results = <<>>
    /\ ResolveDone =>
          /\ Len(resolve_calls) >= 1
          /\ LET last == resolve_calls[Len(resolve_calls)]
             IN  IF last.results # <<>>
                 THEN /\ key = (IF last.ns = "concepts" THEN "concepts.id" ELSE "topics.id")
                      /\ id_url = last.results[1].id
                 ELSE /\ key = "" /\ id_url = ""
                      /\ BothEmpty
          /\ resolve_calls[1].results # <<>> => key = "concepts.id"
          /\ BothEmpty <=> key = ""

\* the resolver has fallen back to topics and returned the topics result
C6_Witness ==
    /\ pc = "while"
    /\ Len(resolve_calls) = 2
    /\ resolve_calls[1].results = <<>>
    /\ key = "topics.id"
    /\ id_url = TopicId

(***************************************************************************)
(* C7.  When both namespaces answer with no result,                        *)
(* search_books_by_subject returns the empty list: no error is raised and  *)
(* request_with_backoff has not been called, so no /works GET was issued.  *)
(***************************************************************************)
C7_UnresolvedReturnsEmpty ==
    BothEmpty =>
        /\ Returned
        /\ rows = <<>>
        /\ response = NoResponse
        /\ works_calls = 0
        /\ bo_gets = 0
        /\ all_rows = <<>>

\* an unresolved subject has returned no rows in the fallback pass
C7_Witness ==
    /\ BothEmpty
    /\ pc = "extend_fallback"
    /\ rows = <<>>
    /\ works_calls = 0

(***************************************************************************)
(* C8.  For every subject get_books has finished with, the first fetch     *)
(* uses the requested oa_only; a second fetch exists if and only if        *)
(* oa_only was requested and the first fetch returned fewer than           *)
(* max_results // 5 rows, and it runs with the filter off; there is no     *)
(* third.  Between subjects, the result list is the rows of all fetches    *)
(* in the order they were made, nothing dropped.                           *)
(***************************************************************************)
BetweenSubjects == pc \in {"for_subject", "respond"}

C8_FallbackIffFewResults ==
    /\ \A i \in 1..(idx - 1) :
          LET fs == FetchesOf(i)
          IN  /\ Len(fs) \in {1, 2}
              /\ fs[1].oa = oa_only
              /\ Len(fs) = 2 <=> (oa_only /\ Len(fs[1].rows) < max_results \div 5)
              /\ Len(fs) = 2 => fs[2].oa = FALSE
    /\ BetweenSubjects => results = ConcatRows(fetches)

\* the fallback fetch ran after a first fetch that had returned a row, and
\* brought rows of its own
C8_Witness ==
    /\ pc = "for_subject"
    /\ idx = 2
    /\ Len(fetches) = 2
    /\ fetches[1].rows # <<>>
    /\ fetches[2].rows # <<>>
    /\ results = fetches[1].rows \o fetches[2].rows

(***************************************************************************)
(* C9.  When get_books has answered without an error, the answer is 404    *)
(* with the message "No results found for given subjects." if and only if  *)
(* the fetches brought no row at all; otherwise it is a 200 whose body     *)
(* holds every row the fetches brought, each as often as it was brought.   *)
(***************************************************************************)
Count(s, r) == Cardinality({i \in DOMAIN s : s[i] = r})

Range(s) == {s[i] : i \in DOMAIN s}

SameRows(s, t) ==
    /\ Len(s) = Len(t)
    /\ \A r \in Range(s) \cup Range(t) : Count(s, r) = Count(t, r)

C9_NotFoundIffEmpty ==
    pc = "done" =>
        LET acc == ConcatRows(fetches)
        IN  /\ response.status \in {200, 404}
            /\ response.status = 404 <=> acc = <<>>
            /\ response.status = 404 =>
                  response.body = "No results found for given subjects."
            /\ response.status = 200 => SameRows(response.body, acc)

\* 404 after every subject of a two-subject request came back without rows
C9_Witness ==
    /\ pc = "done"
    /\ response.status = 404
    /\ Len(subject_list) = 2
    /\ Len(fetches) >= 2

(***************************************************************************)
(* C10.  The rows of a 200 answer are the rows the fetches brought, in     *)
(* non-increasing order of Year, and the rows of any one Year are in the   *)
(* order in which the fetches brought them.                                *)
(***************************************************************************)
C10_StableSortByYearDesc ==
    (pc = "done" /\ response.status = 200) =>
        LET acc == ConcatRows(fetches)
            body == response.body
        IN  /\ Len(body) = Len(acc)
            /\ \A i, j \in DOMAIN body : i < j => body[i].Year >= body[j].Year
            /\ \A y \in Years(acc) \cup Years(body) :
                  RowsOfYear(body, y) = RowsOfYear(acc, y)

\* the sort has moved rows, and left two different rows of one Year in place
C10_Witness ==
    /\ pc = "done"
    /\ response.status = 200
    /\ response.body # ConcatRows(fetches)
    /\ \E i, j \in DOMAIN response.body :
          /\ i < j
          /\ response.body[i].Year = response.body[j].Year
          /\ response.body[i] # response.body[j]

\* the rows of a 200 answer
SentRows == IF response.status = 200 THEN response.body ELSE <<>>

\* every row the run holds or has returned
RowsSeen ==
    Range(all_rows) \cup Range(rows) \cup Range(results)
        \cup Range(ConcatRows(fetches)) \cup Range(SentRows)

\* the record has an integer publication_year
HasIntYear(w) == w.publication_year[1] = "int"

(***************************************************************************)
(* C11.  As claimed: for every year range start_year..end_year with        *)
(* start_year <= end_year, every row that search_books_by_subject gathers  *)
(* or returns and every row that get_books gathers or sends, the rows of   *)
(* the fallback pass included, has its Year in start_year..end_year.       *)
(* This fails for a record that comes without an integer                   *)
(* publication_year: its row has Year 0.                                   *)
(***************************************************************************)
C11_YearInRange ==
    start_year <= end_year =>
        \A r \in RowsSeen : r.Year \in start_year..end_year

(***************************************************************************)
(* C11, amended.  Every /works query carries the filter                    *)
(* publication_year:start_year-end_year, and every row gathered or sent    *)
(* carries the publication_year of the record it was made from when that   *)
(* is an integer, and 0 when it is not; so for start_year <= end_year the  *)
(* Year of a row lies in start_year..end_year or is 0, fallback rows       *)
(* included.                                                               *)
(***************************************************************************)
C11_YearInRangeOrZero ==
    /\ InPagination => params.filter[3] = <<"publication_year", start_year, end_year>>
    /\ \A r \in RowsSeen :
          /\ \E w \in stock.kinds :
                /\ r.URL = pick_best_url(w)
                /\ r.Year = (IF HasIntYear(w) THEN w.publication_year[2] ELSE 0)
          /\ start_year <= end_year => (r.Year \in start_year..end_year \/ r.Year = 0)

\* a request for another year range than the default has sent rows that the
\* fallback pass brought, each with the last year of the range
C11_Witness ==
    /\ pc = "done"
    /\ response.status = 200
    /\ <<start_year, end_year>> \in OtherYearRanges
    /\ start_year < end_year
    /\ Len(fetches) = 2
    /\ fetches[1].rows = <<>>
    /\ fetches[2].oa = FALSE
    /\ response.body # <<>>
    /\ \A i \in DOMAIN response.body : response.body[i].Year = end_year

\* get_books has ended in an error: the answer is a server error without
\* rows, and the rows gathered so far are gone with the handler's frame
Aborted ==
    /\ pc = "error"
    /\ response = [status |-> 500, media |-> "", body |-> <<>>]
    /\ results = <<>>
    /\ rows = <<>>

(***************************************************************************)
(* C12.  Whenever an upstream request fails, be it a resolution GET        *)
(* answered with an error status, a /works GET answered with an error      *)
(* status other than 429, or the fifth 429 of a request_with_backoff       *)
(* call, get_books ends at that step in an error outcome that holds no     *)
(* row; and no step follows an error outcome, so no later subject is       *)
(* resolved or fetched and nothing is sent from the rows of earlier        *)
(* subjects.                                                               *)
(***************************************************************************)
C12_FailureAbortsRequest ==
    [][/\ pc # "error"
       /\ (pc \in {"resolve_concepts", "resolve_topics"}
              /\ resp_status' \in {404, 429, 500}) => Aborted'
       /\ (pc = "backoff_get" /\ resp_status' \in {404, 500}) => Aborted'
       /\ (pc = "backoff_sleep" /\ bo_429s = 5) => Aborted'
       /\ pc' = "done" => response'.status \in {200, 404}]_vars

\* the second subject of a request has failed by 429 exhaustion after the
\* first subject had brought rows
C12_Witness ==
    /\ Aborted
    /\ ~oa_only
    /\ Len(NormalizeSubjects(subjects)) = 2
    /\ Len(fetches) = 1
    /\ fetches[1].idx = 1
    /\ fetches[1].rows # <<>>
    /\ resp_status = 429
    /\ bo_gets = 5

(***************************************************************************)
(* C13.  When get_books is run twice for one request against one fixed     *)
(* upstream dataset and both runs complete, the second run answers with    *)
(* the status and the row sequence of the first, whatever answers of 429   *)
(* (fewer than 5 in a row) and whatever jitter each run met.               *)
(***************************************************************************)
C13_SameRowsOnRerun ==
    (run = 2 /\ pc = "done") =>
        /\ response.status = first_response.status
        /\ response.body = first_response.body

\* both runs have sent the same two or more rows, not all of one Year, and
\* only the second run was answered 429
C13_Witness ==
    /\ run = 2
    /\ pc = "done"
    /\ response.status = 200
    /\ first_response.status = 200
    /\ Len(response.body) >= 2
    /\ \E i, j \in DOMAIN response.body : response.body[i].Year # response.body[j].Year
    /\ throttled_runs = {2}

\* request_with_backoff is running for a /works page
InBackoff == pc \in {"backoff_get", "backoff_sleep"}

(***************************************************************************)
(* C14.  Within one search_books_by_subject call the k-th                  *)
(* request_with_backoff call asks for page k, and a retry asks for the     *)
(* same page again, so pages are requested in the order 1, 2, 3, ... with  *)
(* none skipped and none requested again once it was answered; a request   *)
(* for a page is started only with fewer than max_results rows gathered    *)
(* and, after the first, only when the page before it held a record; the   *)
(* call returns, with no further request, when the loop test finds the     *)
(* cap reached and when a page comes back empty; and with max_results <=   *)
(* 0 no /works request is made at all.                                     *)
(***************************************************************************)
C14_PagesInOrder ==
    [][/\ (InBackoff' \/ pc' \in {"page", "for_work"}) =>
             /\ params'.page = works_calls'
             /\ page' = works_calls'
       /\ pc' = "while" => page' = works_calls' + 1
       /\ (pc = "while" /\ pc' = "backoff_get") =>
             /\ works_calls' = works_calls + 1
             /\ params'.page = works_calls + 1
             /\ Len(all_rows) < max_results
             /\ works_calls > 0 => work_results > 0
       /\ (pc = "backoff_sleep" /\ pc' = "backoff_get") =>
             /\ params' = params
             /\ works_calls' = works_calls
       /\ (pc = "while" /\ Len(all_rows) >= max_results) =>
             /\ Returned'
             /\ works_calls' = works_calls
       /\ (pc = "page" /\ work_results' = 0) =>
             /\ Returned'
             /\ works_calls' = works_calls
       /\ max_results <= 0 => (works_calls' = 0 /\ bo_gets' = 0)]_vars

\* page 2 is being asked for again after a 429, page 1 having brought a row
\* that left room under the cap
C14_Witness ==
    /\ pc = "backoff_get"
    /\ works_calls = 2
    /\ params.page = 2
    /\ bo_429s >= 1
    /\ all_rows # <<>>
    /\ Len(all_rows) < max_results

\* search_books_by_subject is running or has just returned
InResolve == pc \in {"resolve_concepts", "resolve_topics"}
InSearch == InResolve \/ InPagination \/ Returned

\* the characters of the subjects parameter that are neither a comma nor a
\* blank, in order
Letters(s) == LET IsLetter(c) == c \notin {",", " "} IN SelectSeq(s, IsLetter)

RECURSIVE Flatten(_)
\* the characters of a list of subjects, in order
Flatten(ss) == IF ss = <<>> THEN <<>> ELSE Head(ss) \o Flatten(Tail(ss))

(***************************************************************************)
(* C15.  get_books takes the normalized subjects one after another in      *)
(* caller order, repeats included: the subject list spells the subjects    *)
(* parameter without its commas and blanks; the subject being fetched is   *)
(* the idx-th of the list; idx only ever moves on by one, and only when    *)
(* the call for the subject in hand has returned; every subject before     *)
(* the idx-th has finished its fetches and none after it has started       *)
(* one; the fallback pass of a subject starts after its first pass has     *)
(* returned; and within a pass no /works request is made before the        *)
(* resolution requests have been answered with a result.                   *)
(***************************************************************************)
C15_SubjectsInCallerOrder ==
    [][/\ pc' \notin {"get_books", "error"} =>
             /\ Flatten(subject_list') = Letters(subjects)
             /\ \A i \in DOMAIN fetches' : fetches'[i].idx <= idx'
             /\ \A i, j \in DOMAIN fetches' : i < j => fetches'[i].idx <= fetches'[j].idx
             /\ \A i \in 1..(idx' - 1) : \E j \in DOMAIN fetches' : fetches'[j].idx = i
       /\ pc \notin {"get_books", "error"} /\ pc' # "error" => subject_list' = subject_list
       /\ InSearch' =>
             /\ idx' \in DOMAIN subject_list'
             /\ subject' = subject_list'[idx']
             /\ pass' \in {1, 2}
             /\ pass' = 2 => \E j \in DOMAIN fetches' :
                                fetches'[j].idx = idx' /\ fetches'[j].oa = oa_only
       /\ idx' # idx =>
             \/ pc' = "error"
             \/ /\ idx' = idx + 1
                /\ pc = "get_books" \/ Returned
       /\ InResolve' => (works_calls' = 0 /\ bo_gets' = 0)
       /\ InPagination' => (Len(resolve_calls') \in {1, 2} /\ key' # "")]_vars

\* the second of two subjects of the same name is being fetched after the
\* first has brought its rows
C15_Witness ==
    /\ pc = "backoff_get"
    /\ subject_list = << <<"a">>, <<"a">> >>
    /\ idx = 2
    /\ subject = <<"a">>
    /\ Len(fetches) = 1
    /\ fetches[1].idx = 1
    /\ fetches[1].rows # <<>>

\* the base delays of the five attempts, in time units
BaseDelays == <<1, 2, 4, 8, 16>>

(***************************************************************************)
(* C16.  Within one request_with_backoff call, the sleep after the 429 of  *)
(* attempt i (i = 0..4) is the (i+1)-th sleep of the call and lasts at     *)
(* least 2^i and less than 2^i + 1 time units, that is 1, 2, 4, 8, 16      *)
(* plus a jitter below 1; every 429 is followed by exactly one sleep: a    *)
(* GET answered 429 goes to the sleep, while a GET is due the sleeps       *)
(* equal the 429s, and while a sleep is due they are one short; and a GET  *)
(* other than the first of the call is issued only by the step that        *)
(* sleeps.  Time is counted in 1/JitterDen units.                          *)
(***************************************************************************)
C16_SleepDoublesPerAttempt ==
    [][/\ pc = "backoff_sleep" =>
             /\ attempt \in 0..4
             /\ attempt = bo_sleeps
             /\ bo_sleeps' = bo_sleeps + 1
             /\ sleep_time' >= BaseDelays[attempt + 1] * JitterDen
             /\ sleep_time' < (BaseDelays[attempt + 1] + 1) * JitterDen
             /\ BaseDelays[attempt + 1] = 2 ^ attempt
       /\ (pc = "backoff_get" /\ resp_status' = 429) => pc' = "backoff_sleep"
       /\ pc' = "backoff_sleep" => bo_sleeps' = bo_429s' - 1
       /\ pc' = "backoff_get" => (bo_sleeps' = bo_429s' /\ bo_gets' = bo_sleeps')
       /\ (pc' = "backoff_get" /\ bo_gets' > 0) => pc = "backoff_sleep"
       /\ pc # "backoff_sleep" => bo_sleeps' \in {bo_sleeps, 0}]_vars

\* the fourth sleep of a call has lasted more than 8 and less than 9 time
\* units, and the fifth GET is due
C16_Witness ==
    /\ pc = "backoff_get"
    /\ bo_429s = 4
    /\ bo_sleeps = 4
    /\ sleep_time > 8 * JitterDen
    /\ sleep_time < 9 * JitterDen

\* the URL fields of a record
UrlFields(w) == {w.pdf_url, w.landing_page_url, w.doi, w.id}

(***************************************************************************)
(* C17.  Every row gathered, returned or sent has a non-empty URL, taken   *)
(* from a record whose language is "en", and the rows of a                 *)
(* search_books_by_subject call have the subject of the call as Subject;   *)
(* a step of the record loop adds at most one row and drops none; only     *)
(* rows count toward max_results: while fewer than max_results rows are    *)
(* gathered the loop test asks for the next page, whatever number of       *)
(* records was skipped, and the call returns its rows only with            *)
(* max_results rows or more gathered or on an empty page.                  *)
(***************************************************************************)
C17_OnlyEnglishWithUrl ==
    [][/\ \A r \in RowsSeen' :
             /\ r.URL # ""
             /\ \E w \in stock.kinds : w.language = "en" /\ r.URL \in UrlFields(w)
       /\ InPagination' => \A r \in Range(all_rows') : r.Subject = subject'
       /\ Returned' => \A r \in Range(rows') : r.Subject = subject'
       /\ pc = "for_work" =>
             /\ Len(all_rows') \in {Len(all_rows), Len(all_rows) + 1}
             /\ SubSeq(all_rows', 1, Len(all_rows)) = all_rows
       /\ (pc = "while" /\ Len(all_rows) < max_results) => pc' = "backoff_get"
       /\ (InPagination /\ Returned') =>
             /\ rows' = all_rows
             /\ Len(all_rows) >= max_results \/ (pc = "page" /\ work_results' = 0)]_vars

\* page 1 held records, all of them skipped, and page 2 is being asked for
C17_Witness ==
    /\ pc = "backoff_get"
    /\ max_results > 0
    /\ works_calls = 2
    /\ work_results > 0
    /\ all_rows = <<>>

\* get_books has ended, with an answer or with an error
Ended == pc \in {"done", "error"}

\* a step of get_books before its last, which is Respond; Respond has no
\* other condition than that the subject loop is over
StepBeforeRespond ==
    \/ ParseSubjects \/ ForSubject \/ ResolveConcepts \/ ResolveTopics
    \/ WhileTest \/ BackoffGet \/ BackoffSleep \/ PageResults \/ ForWork
    \/ ExtendFirst \/ ExtendFallback

\* most steps one page can take: the loop test, max_retries GETs each with
\* its sleep, the reading of the body, and one step per record
PageSteps == 2 + 2 * max_retries + stock.page_len

\* most steps left to a search_books_by_subject call, by the place it is at
StepsFromWhile(p) == (MaxPages + 2 - p) * PageSteps + 1

CallSteps == StepsFromWhile(1) + 2

StepsLeftInCall ==
    CASE pc = "resolve_concepts" -> CallSteps
      [] pc = "resolve_topics" -> CallSteps - 1
      [] pc = "while" -> StepsFromWhile(page)
      [] pc = "backoff_get" -> StepsFromWhile(page) - 1 - 2 * attempt
      [] pc = "backoff_sleep" -> StepsFromWhile(page) - 2 - 2 * attempt
      [] pc = "page" -> StepsFromWhile(page) - 1 - 2 * max_retries
      [] pc = "for_work" -> StepsFromWhile(page) - 1 - 2 * max_retries - cursor
      [] OTHER -> 0

\* most steps one subject can take: the loop step and two calls, each with
\* the step that appends its rows
SubjectSteps == 2 * CallSteps + 3

\* most steps left to get_books
StepsLeft ==
    LET after == 2 + (Len(subject_list) - idx) * SubjectSteps
    IN  CASE Ended -> 0
          [] pc = "respond" -> 1
          [] pc = "get_books" -> 3 + Len(NormalizeSubjects(subjects)) * SubjectSteps
          [] pc = "for_subject" -> after + SubjectSteps
          [] pc = "extend_fallback" -> after + 1
          [] pc = "extend_first" -> after + 2 + CallSteps
          [] OTHER -> after + StepsLeftInCall + (IF pass = 2 THEN 1 ELSE 2 + CallSteps)

(***************************************************************************)
(* C18.  With an upstream that serves non-empty /works pages only up to    *)
(* page MaxPages, get_books terminates, and so does every                  *)
(* search_books_by_subject call in it: until it has ended with an answer   *)
(* or an error it can always take a step (every request being answered),   *)
(* and every step lowers a count of the steps left that is never           *)
(* negative, so no run goes on for ever, whatever records are skipped.     *)
(***************************************************************************)
C18_Terminates ==
    /\ [](~Ended => (pc = "respond" \/ ENABLED StepBeforeRespond))
    /\ [][StepsLeft' < StepsLeft /\ StepsLeft' >= 0 /\ (Ended' <=> StepsLeft' = 0)]_vars

\* a call that found only skipped records on every page has ended on the
\* empty page after the last one
C18_Witness ==
    /\ pc = "extend_first"
    /\ works_calls = MaxPages + 1
    /\ work_results = 0
    /\ rows = <<>>
    /\ max_results > 0

(***************************************************************************)
(* C19.  The resolution GETs do not go through request_with_backoff:       *)
(* each step of resolve_subject_id issues one GET and moves on, so         *)
(* /concepts and /topics are queried once each at most, two GETs in all;   *)
(* no attempt is counted and nothing is slept during resolution; and a     *)
(* resolution GET answered with an error status, 429 included, ends        *)
(* get_books at that step in an error outcome, that GET being the last.    *)
(***************************************************************************)
C19_ResolverDoesNotRetry ==
    [][InResolve =>
          /\ Len(resolve_calls') = Len(resolve_calls) + 1
          /\ Len(resolve_calls') <= 2
          /\ \A i, j \in DOMAIN resolve_calls' :
                i # j => resolve_calls'[i].ns # resolve_calls'[j].ns
          /\ Last(resolve_calls').status = resp_status'
          /\ pc' # pc
          /\ ~InBackoff'
          /\ bo_gets' = 0 /\ bo_sleeps' = 0 /\ attempt' = 0 /\ sleep_time' = 0
          /\ resp_status' \in {404, 429, 500} => Aborted'
          /\ resp_status' = 200 => ~Aborted']_vars

\* the /topics GET, the second of the resolution, was answered 429 and the
\* request has ended in an error with nothing slept
C19_Witness ==
    /\ Aborted
    /\ Len(resolve_calls) = 2
    /\ resolve_calls[2].ns = "topics"
    /\ resolve_calls[2].status = 429
    /\ resp_status = 429
    /\ bo_gets = 0
    /\ bo_sleeps = 0
    /\ sleep_time = 0

(***************************************************************************)
(* C20.  Every request_with_backoff call starts afresh, whatever           *)
(* happened on earlier pages: it is entered at attempt 0 with no GET, no   *)
(* 429 and no sleep to its name; its attempt counter counts its own 429s   *)
(* only; its first sleep has base delay 1; and it raises for exhaustion    *)
(* only after 5 GETs and 5 answers of 429 of its own.  Time is counted in  *)
(* 1/JitterDen units.                                                      *)
(***************************************************************************)
C20_BudgetPerPageRequest ==
    [][/\ (pc = "while" /\ pc' = "backoff_get") =>
             /\ attempt' = 0
             /\ bo_gets' = 0 /\ bo_429s' = 0 /\ bo_sleeps' = 0
             /\ sleep_time' = 0
       /\ pc' = "backoff_get" => (attempt' = bo_429s' /\ attempt' = bo_gets' /\ attempt' < 5)
       /\ pc' = "backoff_sleep" => (attempt' = bo_429s' - 1 /\ bo_gets' = bo_429s')
       /\ (pc = "backoff_sleep" /\ bo_sleeps = 0) =>
             (sleep_time' >= JitterDen /\ sleep_time' < 2 * JitterDen)
       /\ (pc = "backoff_sleep" /\ pc' = "error") => (bo_gets = 5 /\ bo_429s = 5)]_vars

\* the first pass of a one-subject request is about to issue the first GET
\* for page 2 at attempt 0, a GET for page 1 having been answered 429
C20_Witness ==
    /\ run = 1
    /\ Len(subject_list) = 1
    /\ pass = 1
    /\ pc = "backoff_get"
    /\ works_calls = 2
    /\ params.page = 2
    /\ attempt = 0
    /\ bo_gets = 0
    /\ bo_429s = 0
    /\ throttled_runs = {1}

====
